---- MODULE Spec2Model ----
(***************************************************************************)
(* Model of src/app/main.py: a FastAPI application created with no         *)
(* arguments, with two GET endpoints, root ("/") and health ("/health").   *)
(*                                                                         *)
(* A request path is the sequence of the segments that follow its leading  *)
(* slash: "/" is <<"">>, "/health" is <<"health">>, "/health/" is          *)
(* <<"health", "">>; the empty string is << >>.                            *)
(* The service holds the application's route table and a fixed number of   *)
(* connections; each connection carries at most one request, which is      *)
(* accepted, then routed and handled, then sent back.  `served` is the     *)
(* window of the last responses the clients have received.                 *)
(***************************************************************************)
EXTENDS Integers, Sequences, FiniteSets

VARIABLES routes, conn, served

vars == <<routes, conn, served>>

\* Number of connections that can hold a request at the same time.
MaxInFlight == 2

\* Number of delivered responses that the window `served` remembers.
MaxServed == 2

Conns == 1..MaxInFlight

RootPath == <<"">>

HealthPath == <<"health">>

\* The paths that FastAPI() registers when it is given no arguments:
\* openapi_url, docs_url, swagger_ui_oauth2_redirect_url and redoc_url.
DefaultPaths == {<<"openapi.json">>, <<"docs">>, <<"docs", "oauth2-redirect">>, <<"redoc">>}

Methods == {"GET", "HEAD", "POST", "PUT", "DELETE", "PATCH"}

Paths == {RootPath, HealthPath, <<"health", "">>, <<"missing">>, <<"docs", "">>} \cup DefaultPaths

\* Everything a request carries besides its method and path (query string,
\* headers, body), as one value.
Extras == {"", "verbose=1"}

\* The requests the concurrent service is driven with.
SvcMethods == {"GET", "POST"}

SvcPaths == {RootPath, HealthPath}

NoReq == [method |-> "", path |-> << >>, extra |-> ""]

NoResp == [status |-> 0, media_type |-> "", body |-> << >>]

Idle == [pc |-> "idle", req |-> NoReq, resp |-> NoResp, ran |-> ""]

----------------------------------------------------------------------------
(* The two handlers: each returns a dict display, a new value per call.    *)

\* root with another greeting.
root_stale == [message |-> "Hello from FastAPI"]

root == [message |-> "Hello from FastAPI (Docker)"]

\* health with another status text.
health_upper == [status |-> "OK"]

\* health reading what was served before.
health_flaky == [status |-> IF served # << >> THEN "busy" ELSE "ok"]

health == [status |-> "ok"]

----------------------------------------------------------------------------
(* The application object and its route table, in registration order.      *)
(* The documentation routes are plain routes, to which GET adds HEAD; the  *)
(* two decorated endpoints are API routes bound to GET alone.              *)

AppRoutes ==
    << [path |-> <<"openapi.json">>, methods |-> {"GET", "HEAD"}, endpoint |-> "openapi"],
       [path |-> <<"docs">>, methods |-> {"GET", "HEAD"}, endpoint |-> "swagger_ui_html"],
       [path |-> <<"docs", "oauth2-redirect">>, methods |-> {"GET", "HEAD"},
        endpoint |-> "swagger_ui_redirect"],
       [path |-> <<"redoc">>, methods |-> {"GET", "HEAD"}, endpoint |-> "redoc_html"],
       [path |-> RootPath, methods |-> {"GET"}, endpoint |-> "root"],
       [path |-> HealthPath, methods |-> {"GET"}, endpoint |-> "health"] >>

JSONResponse(code, content) ==
    [status |-> code, media_type |-> "application/json", body |-> content]

HTMLResponse(page) ==
    [status |-> 200, media_type |-> "text/html", body |-> [html |-> page]]

\* The framework's answer to an HTTPException.
HTTPError(code, detail) == JSONResponse(code, [detail |-> detail])

\* Endpoints that copy what the request carries into their payload.
RunEndpoint_echo(endpoint, req) ==
    CASE endpoint = "root" -> JSONResponse(200, [message |-> root.message, extra |-> req.extra])
      [] endpoint = "health" -> JSONResponse(200, [status |-> health.status, extra |-> req.extra])
      [] OTHER -> HTMLResponse(endpoint)

\* The response of the endpoint a route is bound to.  The two endpoints of
\* main.py take no parameters, so nothing of the request reaches them.  The
\* generated documents are kept as a tag: only their status matters here.
RunEndpoint(endpoint, req) ==
    CASE endpoint = "root" -> JSONResponse(200, root)
      [] endpoint = "health" -> JSONResponse(200, health)
      [] endpoint = "openapi" -> JSONResponse(200, [document |-> "openapi"])
      [] OTHER -> HTMLResponse(endpoint)

IsPrefix(s, t) == Len(s) <= Len(t) /\ SubSeq(t, 1, Len(s)) = s

\* A route whose path pattern is not anchored at its end.
Match_prefix(route, req) ==
    IF ~IsPrefix(route.path, req.path) THEN "NONE"
    ELSE IF req.method \in route.methods THEN "FULL"
    ELSE "PARTIAL"

\* A route bound to every method.
Match_any_method(route, req) ==
    IF route.path # req.path THEN "NONE" ELSE "FULL"

\* A route matches a request fully, on the path alone, or not at all.
Match(route, req) ==
    IF route.path # req.path THEN "NONE"
    ELSE IF req.method \in route.methods THEN "FULL"
    ELSE "PARTIAL"

RECURSIVE RStrip(_)
RStrip(p) ==
    IF p # << >> /\ p[Len(p)] = "" THEN RStrip(SubSeq(p, 1, Len(p) - 1)) ELSE p

\* The path the router tries when nothing matches: without its trailing
\* slashes if it ends with one, with a trailing slash otherwise.
ToggleSlash(p) ==
    IF p # << >> /\ p[Len(p)] = "" THEN RStrip(p) ELSE Append(p, "")

Min(S) == CHOOSE x \in S : \A y \in S : x <= y

\* The router: the first route that matches fully runs its endpoint; else
\* the first that matches on the path answers 405; else a request whose
\* path matches a route once its trailing slash is toggled is redirected;
\* else 404.  `ran` is the endpoint that was invoked, "" when none was.
Router(rts, req) ==
    LET full == {i \in DOMAIN rts : Match(rts[i], req) = "FULL"}
        partial == {i \in DOMAIN rts : Match(rts[i], req) = "PARTIAL"}
        toggled == [req EXCEPT !.path = ToggleSlash(req.path)]
    IN  IF full # {}
        THEN [ran |-> rts[Min(full)].endpoint,
              response |-> RunEndpoint(rts[Min(full)].endpoint, req)]
        ELSE IF partial # {}
        THEN [ran |-> "", response |-> HTTPError(405, "Method Not Allowed")]
        ELSE IF req.path # RootPath /\ \E i \in DOMAIN rts : Match(rts[i], toggled) # "NONE"
        THEN [ran |-> "", response |-> [status |-> 307, media_type |-> "", body |-> << >>]]
        ELSE [ran |-> "", response |-> HTTPError(404, "Not Found")]

----------------------------------------------------------------------------
(* The service.                                                            *)

Init ==
    /\ routes = AppRoutes
    /\ conn = [c \in Conns |-> Idle]
    /\ served = << >>

\* A request arrives on a free connection.
Receive(c, m, p, x) ==
    /\ conn[c].pc = "idle"
    /\ conn' = [conn EXCEPT ![c] = [pc |-> "accepted",
                                    req |-> [method |-> m, path |-> p, extra |-> x],
                                    resp |-> NoResp, ran |-> ""]]
    /\ UNCHANGED <<routes, served>>

\* An endpoint run that changes the route table.
Handle_registers(c) ==
    /\ conn[c].pc = "accepted"
    /\ LET d == Router(routes, conn[c].req)
       IN  conn' = [conn EXCEPT ![c].pc = "responded", ![c].resp = d.response, ![c].ran = d.ran]
    /\ routes' = IF conn[c].req.method = "GET" THEN Tail(routes) ELSE routes
    /\ UNCHANGED served

\* An endpoint run that looks at the other connections.
Handle_shared(c) ==
    /\ conn[c].pc = "accepted"
    /\ LET d == Router(routes, conn[c].req)
           busy == \E o \in Conns \ {c} : conn[o].pc = "responded"
       IN  conn' = [conn EXCEPT ![c].pc = "responded",
                                ![c].resp = IF busy THEN HTTPError(503, "Busy") ELSE d.response,
                                ![c].ran = d.ran]
    /\ UNCHANGED <<routes, served>>

\* An endpoint run that waits for the other accepted requests.
Handle_waits(c) ==
    /\ conn[c].pc = "accepted"
    /\ \A o \in Conns \ {c} : conn[o].pc # "accepted"
    /\ LET d == Router(routes, conn[c].req)
       IN  conn' = [conn EXCEPT ![c].pc = "responded", ![c].resp = d.response, ![c].ran = d.ran]
    /\ UNCHANGED <<routes, served>>

\* The request is routed and its endpoint runs.  The endpoints are
\* coroutines without an await: routing and the endpoint's run are one step.
Handle(c) ==
    /\ conn[c].pc = "accepted"
    /\ LET d == Router(routes, conn[c].req)
       IN  conn' = [conn EXCEPT ![c].pc = "responded", ![c].resp = d.response, ![c].ran = d.ran]
    /\ UNCHANGED <<routes, served>>

Window(s) == IF Len(s) > MaxServed THEN Tail(s) ELSE s

\* The response reaches the client and the connection is free again.
Send(c) ==
    /\ conn[c].pc = "responded"
    /\ served' = Window(Append(served, [method |-> conn[c].req.method,
                                         path |-> conn[c].req.path,
                                         status |-> conn[c].resp.status,
                                         body |-> conn[c].resp.body]))
    /\ conn' = [conn EXCEPT ![c] = Idle]
    /\ UNCHANGED routes

Next ==
    \/ \E c \in Conns, m \in SvcMethods, p \in SvcPaths, x \in Extras : Receive(c, m, p, x)
    \/ \E c \in Conns : Handle(c)
    \/ \E c \in Conns : Send(c)

Spec == Init /\ [][Next]_vars

\* The event loop runs every task that is ready.
LiveNext ==
    \/ \E c \in Conns, p \in SvcPaths, x \in Extras : Receive(c, "GET", p, x)
    \/ \E c \in Conns : Handle(c)
    \/ \E c \in Conns : Send(c)

FairSpec ==
    /\ Init /\ [][LiveNext]_vars
    /\ \A c \in Conns : WF_vars(Handle(c)) /\ WF_vars(Send(c))

(* The dispatcher alone: one accepted request of any method and path.      *)
RouteInit ==
    /\ routes = AppRoutes
    /\ \E m \in Methods, p \in Paths, x \in Extras :
          conn = [c \in Conns |->
                    IF c = 1
                    THEN [pc |-> "accepted", req |-> [method |-> m, path |-> p, extra |-> x],
                          resp |-> NoResp, ran |-> ""]
                    ELSE Idle]
    /\ served = << >>

RouteNext ==
    \/ \E c \in Conns : Handle(c)
    \/ \E c \in Conns : Send(c)

RouteSpec == RouteInit /\ [][RouteNext]_vars

----------------------------------------------------------------------------
(* Properties.                                                             *)

Responded(c) == conn[c].pc = "responded"

Answer(c) ==
    [method |-> conn[c].req.method, path |-> conn[c].req.path,
     status |-> conn[c].resp.status, body |-> conn[c].resp.body]

\* Every response that exists: those waiting on a connection and those in
\* the window of delivered ones.
Answered == {Answer(c) : c \in {k \in Conns : Responded(k)}} \cup {served[i] : i \in DOMAIN served}

IsGet(a, p) == a.method = "GET" /\ a.path = p

\* C1: every GET / is answered with status 200 and the body
\* {"message": "Hello from FastAPI (Docker)"}, whatever was served before.
C1_RootAlwaysHello ==
    \A a \in Answered :
        IsGet(a, RootPath) =>
            a.status = 200 /\ a.body = [message |-> "Hello from FastAPI (Docker)"]

C1_Witness ==
    /\ served # << >>
    /\ \E i \in DOMAIN served : ~IsGet(served[i], RootPath)
    /\ \E c \in Conns : Responded(c) /\ IsGet(Answer(c), RootPath)

\* C2: every GET /health is answered with status 200 and the body
\* {"status": "ok"}, whatever was served before.
C2_HealthAlwaysOk ==
    \A a \in Answered :
        IsGet(a, HealthPath) => a.status = 200 /\ a.body = [status |-> "ok"]

C2_Witness ==
    /\ served # << >>
    /\ \E i \in DOMAIN served : ~IsGet(served[i], HealthPath)
    /\ \E c \in Conns : Responded(c) /\ IsGet(Answer(c), HealthPath)

\* C3, as claimed: a GET of any path other than / and /health is answered
\* with a status different from 200, the default documentation paths included.
C3_OtherPathsNot200 ==
    \A a \in Answered :
        (a.method = "GET" /\ a.path \notin {RootPath, HealthPath}) => a.status # 200

\* C3, amended: a GET of any path other than /, /health and the four paths
\* FastAPI() registers by itself is answered with a status different from
\* 200; a GET of one of those four paths is answered with 200.
C3_UnregisteredPathsNot200 ==
    \A a \in Answered :
        a.method = "GET" =>
            /\ a.path \notin ({RootPath, HealthPath} \cup DefaultPaths) => a.status # 200
            /\ a.path \in DefaultPaths => a.status = 200

C3_Witness ==
    \E c \in Conns :
        /\ Responded(c)
        /\ conn[c].req.method = "GET"
        /\ conn[c].req.path \in {<<"missing">>, <<"health", "">>}
        /\ conn[c].resp.status \in {404, 307}

\* C4: any two calls of GET /, and any two calls of GET /health, return the
\* same status and the same body, whatever was served between them.
C4_Idempotent ==
    \A a, b \in Answered :
        \A p \in {RootPath, HealthPath} :
            (IsGet(a, p) /\ IsGet(b, p)) => a.status = b.status /\ a.body = b.body

C4_Witness ==
    /\ Len(served) = 2
    /\ IsGet(served[1], HealthPath)
    /\ ~IsGet(served[2], HealthPath)
    /\ \E c \in Conns : Responded(c) /\ IsGet(Answer(c), HealthPath)

\* The response the service gives a request that is alone: routed from the
\* application's route table with no other request anywhere.
SoloResponse(req) == Router(AppRoutes, req).response

\* C5: with several requests in flight, each receives the response it would
\* receive if it were the only request.
C5_Independent ==
    \A c \in Conns : Responded(c) => conn[c].resp = SoloResponse(conn[c].req)

C5_Witness ==
    /\ Responded(1) /\ IsGet(Answer(1), RootPath)
    /\ Responded(2) /\ IsGet(Answer(2), HealthPath)

\* C6: handling a request changes nothing but that request's own
\* connection: the route table never changes, the step that runs the
\* endpoint leaves every other connection and the delivered responses as
\* they were, and once the response is sent the connection is as it was
\* before the request.
C6_NoSideEffects ==
    [][ /\ routes' = routes
        /\ \A c \in Conns :
              (conn[c].pc = "accepted" /\ conn'[c].pc = "responded") =>
                  /\ served' = served
                  /\ conn'[c].req = conn[c].req
                  /\ \A o \in Conns \ {c} : conn'[o] = conn[o]
        /\ \A c \in Conns :
              (conn[c].pc = "responded" /\ conn'[c].pc # "responded") => conn'[c] = Idle
      ]_vars

C6_Witness ==
    /\ routes = AppRoutes
    /\ \E c \in Conns : Responded(c) /\ conn[c].ran = "root"
    /\ \E c \in Conns : conn[c].pc = "accepted"
    /\ \E i \in DOMAIN served : IsGet(served[i], HealthPath)

\* C7: every accepted request is eventually answered and its response
\* delivered; an accepted request goes to answered in one step, with no
\* state in between.
C7_EventuallyAnswered ==
    /\ \A c \in Conns : (conn[c].pc = "accepted") ~> (conn[c].pc = "responded")
    /\ \A c \in Conns : (conn[c].pc = "responded") ~> (conn[c].pc = "idle")
    /\ [][\A c \in Conns : conn[c].pc = "accepted" => conn'[c].pc \in {"accepted", "responded"}]_vars

C7_Witness ==
    /\ conn[1].pc = "accepted" /\ conn[1].req.path = HealthPath
    /\ conn[2].pc = "responded" /\ conn[2].ran = "root"
    /\ served # << >>

\* C8: a request to / or /health with a method other than GET invokes
\* neither root nor health and is not answered with 200 and the payload.
C8_GetOnly ==
    \A c \in Conns :
        (Responded(c) /\ conn[c].req.path \in {RootPath, HealthPath}
                      /\ conn[c].req.method # "GET") =>
            /\ conn[c].ran \notin {"root", "health"}
            /\ ~(conn[c].resp.status = 200
                 /\ conn[c].resp.body \in {[message |-> "Hello from FastAPI (Docker)"],
                                           [status |-> "ok"]})

C8_Witness ==
    \E c \in Conns :
        /\ Responded(c)
        /\ conn[c].req.path = HealthPath
        /\ conn[c].req.method \in {"POST", "PUT", "DELETE", "PATCH"}
        /\ conn[c].resp.status = 405

\* C9: requests with the same method and path receive the same status and
\* body, whatever else they carry and whatever was served before them.
C9_MethodAndPathOnly ==
    \A a, b \in Answered :
        (a.method = b.method /\ a.path = b.path) => a.status = b.status /\ a.body = b.body

C9_Witness ==
    /\ served # << >>
    /\ Responded(1) /\ Responded(2)
    /\ conn[1].req.method = conn[2].req.method
    /\ conn[1].req.path = conn[2].req.path
    /\ conn[1].req.extra # conn[2].req.extra
    /\ conn[1].ran # ""

====
